---- MODULE Spec2Model ----
(***************************************************************************)
(* githaul (src/githaul.py): the repository status classifier              *)
(* local_repo_status, the classification pass check_repos, and the grouped *)
(* action orchestrator do_updates_and_clones with its helper               *)
(* ensure_submodules, driven by main.                                      *)
(*                                                                         *)
(* Every fact the program learns comes from run_command.  The git side is  *)
(* modelled as a per-repository record (the "world") from which each       *)
(* command's output is derived, together with an exit code chosen by the   *)
(* environment (0, a non-zero git exit, or run_command's failure code).    *)
(***************************************************************************)
EXTENDS Integers, Sequences, FiniteSets, TLC

(***************************************************************************)
(* Bounds of the model and constants of the program.                       *)
(***************************************************************************)
NumRepos == 2         \* repositories in one run
MaxCount == 1         \* largest ahead/behind commit count
DaysSpread == 1       \* commit ages range over Threshold +/- DaysSpread days
MaxUpsets == 1        \* environment upsets in one run: failing commands, trees changed
Threshold == 30       \* days_behind >= 30 gives OBSOLETE
RunnerFailure == 99   \* run_command's exit code for an exception or timeout

Repos == 1..NumRepos
Days == (Threshold - DaysSpread)..(Threshold + DaysSpread)
ExitCodes == {0, 1, RunnerFailure}

NOT_PRESENT == "NOT PRESENT"
OUT_OF_DATE == "OUT OF DATE"
OBSOLETE == "OBSOLETE"
SYNCHRONIZED == "SYNCHRONIZED"
MODIFIED == "MODIFIED"
CONFLICT == "CONFLICT"
DESYNCHRONIZED == "DESYNCHRONIZED"
Statuses ==
    {NOT_PRESENT, OUT_OF_DATE, OBSOLETE, SYNCHRONIZED, MODIFIED, CONFLICT, DESYNCHRONIZED}

(***************************************************************************)
(* The state of one repository on disk and against its remote:             *)
(*   git        <localPath>/.git is a directory                            *)
(*   dirty      the working tree has uncommitted changes                   *)
(*   unmerged   the index holds unmerged (conflicted) paths                *)
(*   upstream   the current branch has a configured upstream               *)
(*   ahead      commits reachable only from HEAD                           *)
(*   behind     commits reachable only from the upstream                   *)
(*   days       whole days since the newest upstream-only commit           *)
(*   gitmodules the tree holds a .gitmodules file (for a repository not    *)
(*              yet cloned: the tree a clone would check out)              *)
(* Unmerged paths always show in `git status --porcelain`, so unmerged     *)
(* implies dirty; without an upstream there is nothing to be ahead of or   *)
(* behind; days is only meaningful when behind > 0.                        *)
(***************************************************************************)
WorldShape ==
    [git : BOOLEAN, dirty : BOOLEAN, unmerged : BOOLEAN, upstream : BOOLEAN,
     ahead : 0..MaxCount, behind : 0..MaxCount, days : Days \cup {0},
     gitmodules : BOOLEAN]

Worlds ==
    { w \in WorldShape :
        /\ (w.unmerged => w.dirty)
        /\ (~w.git => ~w.dirty /\ ~w.upstream)
        /\ (~w.upstream => w.ahead = 0 /\ w.behind = 0)
        /\ (w.behind = 0 <=> w.days = 0) }

(***************************************************************************)
(* run_command: (exit code, stdout).  stdout is a sequence of tokens and   *)
(* is empty whenever the command did not succeed.                          *)
(***************************************************************************)
run_command(code, out) ==
    [code |-> code, out |-> IF code = 0 THEN out ELSE << >>]

\* git status --porcelain: one line per changed path.
GitStatus(w, code) == run_command(code, IF w.dirty THEN <<"M">> ELSE << >>)

\* git rev-parse --abbrev-ref HEAD
GitRevParse(w, code) == run_command(code, <<"main">>)

\* git rev-list --left-right --count HEAD...@{u}: prints the count of the
\* left side (commits only in HEAD, i.e. ahead) and then the count of the
\* right side (commits only in @{u}, i.e. behind).  Without an upstream
\* @{u} does not resolve and git exits non-zero.
GitRevList(w, code) ==
    IF w.upstream THEN run_command(code, <<w.ahead, w.behind>>)
    ELSE run_command(IF code = 0 THEN 1 ELSE code, << >>)

\* git ls-files --unmerged
GitLsFiles(w, code) == run_command(code, IF w.unmerged THEN <<"U">> ELSE << >>)

\* git log --pretty=format:%cI HEAD..@{u} -1: the newest upstream-only
\* commit's date (here: its age in days), nothing when the range is empty.
GitLog(w, code) ==
    IF ~w.upstream THEN run_command(IF code = 0 THEN 1 ELSE code, << >>)
    ELSE run_command(code, IF w.behind > 0 THEN <<w.days>> ELSE << >>)

\* repo_has_submodules answering yes for every tree
repo_has_submodules_always(w) == TRUE

\* lines 152-154: <repo_path>/.gitmodules is a file
repo_has_submodules(w) == w.gitmodules

\* behind, ahead = map(int, ahead_behind.strip().split()), 0/0 on exception
ParseCounts(out) ==
    IF Len(out) = 2
    THEN [behind |-> out[1], ahead |-> out[2]]
    ELSE [behind |-> 0, ahead |-> 0]

\* days_behind of lines 193-200
DaysBehind(r) == IF r.code = 0 /\ r.out # << >> THEN r.out[1] ELSE 0

Verdict(status, branch, subs, cmds, dirty, behind, ahead) ==
    [status |-> status, branch |-> branch, has_submodules |-> subs,
     cmds |-> cmds, dirty |-> dirty, behind |-> behind, ahead |-> ahead]

(***************************************************************************)
(* The exit codes the environment gives to the classifier's six commands.  *)
(***************************************************************************)
Exits == [st : ExitCodes, br : ExitCodes, ru : ExitCodes,
          rl : ExitCodes, ls : ExitCodes, lg : ExitCodes]

AllOk == [st |-> 0, br |-> 0, ru |-> 0, rl |-> 0, ls |-> 0, lg |-> 0]

\* line 186 testing `behind` alone
IsDesynchronizedBehindOnly(dirty, behind, ahead) == dirty /\ behind > 0

\* line 186: dirty with divergence
IsDesynchronized(dirty, behind, ahead) == dirty /\ (behind > 0 \/ ahead > 0)

\* lines 201-204: the recency split
Recency(days_behind) == IF days_behind >= Threshold THEN OBSOLETE ELSE OUT_OF_DATE

\* lines 162-163: no .git directory, nothing is run
NotPresent == Verdict(NOT_PRESENT, "-", FALSE, << >>, FALSE, 0, 0)

\* lines 164-207 without the return of lines 177-178
ClassifyCloneCountUnchecked(w, x) ==
    LET st == GitStatus(w, x.st)
        dirty == st.out # << >>
        br == GitRevParse(w, x.br)
        branch == IF br.out = << >> THEN "" ELSE br.out[1]
        rl == GitRevList(w, x.rl)
        n == ParseCounts(rl.out)
        ls == GitLsFiles(w, x.ls)
        lg == GitLog(w, x.lg)
        subs == repo_has_submodules(w)
        c2 == <<"status", "rev-parse">>
        c3 == c2 \o <<"remote update">>
        c4 == c3 \o <<"rev-list">>
        c5 == c4 \o <<"ls-files">>
        c6 == c5 \o <<"log">>
    IN  IF st.code # 0 THEN Verdict(CONFLICT, "-", subs, <<"status">>, FALSE, 0, 0)
        ELSE IF br.code # 0 THEN Verdict(CONFLICT, "-", subs, c2, dirty, 0, 0)
        ELSE IF x.ru # 0 THEN Verdict(CONFLICT, branch, subs, c3, dirty, 0, 0)
        ELSE IF ls.code = 0 /\ ls.out # << >>
             THEN Verdict(CONFLICT, branch, subs, c5, dirty, n.behind, n.ahead)
        ELSE IF IsDesynchronized(dirty, n.behind, n.ahead)
             THEN Verdict(DESYNCHRONIZED, branch, subs, c5, dirty, n.behind, n.ahead)
        ELSE IF dirty THEN Verdict(MODIFIED, branch, subs, c5, dirty, n.behind, n.ahead)
        ELSE IF n.behind > 0
             THEN Verdict(Recency(DaysBehind(lg)), branch, subs, c6, dirty, n.behind, n.ahead)
        ELSE IF n.ahead > 0 THEN Verdict(MODIFIED, branch, subs, c5, dirty, n.behind, n.ahead)
        ELSE Verdict(SYNCHRONIZED, branch, subs, c5, dirty, n.behind, n.ahead)

(***************************************************************************)
(* Lines 164-207 of local_repo_status: a repository with a .git directory. *)
(* The result carries the commands issued and the locals dirty, behind and *)
(* ahead as they stood at the return.                                      *)
(***************************************************************************)
ClassifyClone(w, x) ==
    LET st == GitStatus(w, x.st)
        dirty == st.out # << >>
        br == GitRevParse(w, x.br)
        branch == IF br.out = << >> THEN "" ELSE br.out[1]
        rl == GitRevList(w, x.rl)
        n == ParseCounts(rl.out)
        ls == GitLsFiles(w, x.ls)
        lg == GitLog(w, x.lg)
        subs == repo_has_submodules(w)
        c2 == <<"status", "rev-parse">>
        c3 == c2 \o <<"remote update">>
        c4 == c3 \o <<"rev-list">>
        c5 == c4 \o <<"ls-files">>
        c6 == c5 \o <<"log">>
    IN  IF st.code # 0 THEN Verdict(CONFLICT, "-", subs, <<"status">>, FALSE, 0, 0)
        ELSE IF br.code # 0 THEN Verdict(CONFLICT, "-", subs, c2, dirty, 0, 0)
        ELSE IF x.ru # 0 THEN Verdict(CONFLICT, branch, subs, c3, dirty, 0, 0)
        ELSE IF rl.code # 0
             THEN Verdict(IF dirty THEN MODIFIED ELSE SYNCHRONIZED, branch, subs, c4, dirty, 0, 0)
        ELSE IF ls.code = 0 /\ ls.out # << >>
             THEN Verdict(CONFLICT, branch, subs, c5, dirty, n.behind, n.ahead)
        ELSE IF IsDesynchronized(dirty, n.behind, n.ahead)
             THEN Verdict(DESYNCHRONIZED, branch, subs, c5, dirty, n.behind, n.ahead)
        ELSE IF dirty THEN Verdict(MODIFIED, branch, subs, c5, dirty, n.behind, n.ahead)
        ELSE IF n.behind > 0
             THEN Verdict(Recency(DaysBehind(lg)), branch, subs, c6, dirty, n.behind, n.ahead)
        ELSE IF n.ahead > 0 THEN Verdict(MODIFIED, branch, subs, c5, dirty, n.behind, n.ahead)
        ELSE Verdict(SYNCHRONIZED, branch, subs, c5, dirty, n.behind, n.ahead)

\* local_repo_status without the test of lines 161-163
local_repo_status_unguarded(w, x) == ClassifyClone(w, x)

\* local_repo_status(repo_path, remote_url)
local_repo_status(w, x) == IF ~w.git THEN NotPresent ELSE ClassifyClone(w, x)

(***************************************************************************)
(* State.                                                                  *)
(*   world        the repositories on disk and against their remotes       *)
(*   checked      the records of the pre-action pass (check_repos)         *)
(*   seen         per record, the classifier's locals dirty/behind/ahead   *)
(*   checked_post the records of the post-action pass                      *)
(*   pc, at, i    position: stage of the run, command within the current   *)
(*                member, index of the current member                      *)
(*   dirty, conflict   Phase A's post-fetch locals                         *)
(*   update_all, clone_all, fetch_all   the three confirmations            *)
(*   prompts      the confirmations requested, in order, with the answers  *)
(*   trail        the commands run so far on the current member            *)
(*   runs         per repository, how often fetch, pull and clone were run *)
(*   upsets       environment upsets so far: commands made to fail and     *)
(*                working trees changed behind the program's back          *)
(*   probe, verdict    one call of a function taken on its own             *)
(*                (local_repo_status, parse_org_user_alias,                *)
(*                display_repos_table): its inputs and its result          *)
(***************************************************************************)
VARIABLES world, checked, seen, checked_post, pc, at, i, dirty, conflict,
          update_all, clone_all, fetch_all, prompts, trail, runs, upsets,
          probe, verdict

vars == <<world, checked, seen, checked_post, pc, at, i, dirty, conflict,
          update_all, clone_all, fetch_all, prompts, trail, runs, upsets,
          probe, verdict>>

NoProbe == [w |-> NotPresent, x |-> AllOk]
NoVerdict == Verdict("", "", FALSE, << >>, FALSE, 0, 0)
NoRuns == [r \in Repos |-> [fetch |-> 0, pull |-> 0, clone |-> 0]]

\* A world no command has touched: nothing cloned.
Absent == [git |-> FALSE, dirty |-> FALSE, unmerged |-> FALSE, upstream |-> FALSE,
           ahead |-> 0, behind |-> 0, days |-> 0, gitmodules |-> FALSE]

(***************************************************************************)
(* A command run in repository repo and whether it exited 0, or (repo = 0) *)
(* a prompt and the operator's answer.                                     *)
(***************************************************************************)
Event(repo, cmd, ok) == [repo |-> repo, cmd |-> cmd, ok |-> ok]

\* the record check_repos appends; path and remote_url are functions of name
Record(name, v) ==
    [name |-> name, status |-> v.status, branch |-> v.branch,
     has_submodules |-> v.has_submodules]

\* the grouping without its key: every record in every group
get_grouped_repos_any(recs, status) == recs

\* get_grouped_repos: the records of one status, in list order
get_grouped_repos(recs, status) == SelectSeq(recs, LAMBDA r : r.status = status)

\* line 294 with MODIFIED among the statuses to update
need_update_and_modified ==
    get_grouped_repos(checked, OUT_OF_DATE) \o get_grouped_repos(checked, OBSOLETE)
        \o get_grouped_repos(checked, MODIFIED)

need_update == get_grouped_repos(checked, OUT_OF_DATE) \o get_grouped_repos(checked, OBSOLETE)
need_clone == get_grouped_repos(checked, NOT_PRESENT)
need_fetch ==
    get_grouped_repos(checked, MODIFIED) \o get_grouped_repos(checked, CONFLICT)
        \o get_grouped_repos(checked, DESYNCHRONIZED)

\* ask_yes_no on the stripped, lower-cased answer
Answers == {"", "y", "yes", "n", "no"}
ask_yes_no(ans, default_yes) ==
    IF ans = "" /\ default_yes THEN TRUE
    ELSE IF ans = "" /\ ~default_yes THEN FALSE
    ELSE ans \in {"y", "yes"}

(***************************************************************************)
(* The mutating commands: exit code and the world they leave.              *)
(***************************************************************************)
Effect(code, w) == [code |-> code, world |-> w]

\* git fetch refreshes remote-tracking refs only; the remote does not move
\* during a run, and the classifier's `git remote update` has already run.
GitFetch(w, code) == Effect(code, w)

\* git pull: without an upstream it fails; with no local commits it
\* fast-forwards; with local and upstream commits it merges (a new local
\* commit) or, exiting non-zero, may leave unmerged paths behind.
GitPull(w, code) ==
    IF ~w.upstream THEN Effect(IF code = 0 THEN 1 ELSE code, w)
    ELSE IF code = 0 /\ w.ahead = 0
        THEN Effect(0, [w EXCEPT !.behind = 0, !.days = 0])
    ELSE IF code = 0 /\ w.behind > 0
        THEN Effect(0, [w EXCEPT !.ahead = w.ahead + 1, !.behind = 0, !.days = 0])
    ELSE IF code = 1 /\ w.ahead > 0 /\ w.behind > 0
        THEN Effect(1, [w EXCEPT !.dirty = TRUE, !.unmerged = TRUE])
    ELSE Effect(code, w)

\* git clone <remote_url> <path>: fails when the destination is already a
\* repository; otherwise leaves a clean checkout tracking the remote.
GitClone(w, code) ==
    IF w.git THEN Effect(IF code = 0 THEN 1 ELSE code, w)
    ELSE IF code = 0
        THEN Effect(0, [git |-> TRUE, dirty |-> FALSE, unmerged |-> FALSE,
                        upstream |-> TRUE, ahead |-> 0, behind |-> 0, days |-> 0,
                        gitmodules |-> w.gitmodules])
    ELSE Effect(code, w)

(***************************************************************************)
(* do_updates_and_clones.  pc runs askA, askB, askC, A, B, C, returned;    *)
(* within a phase, i is the member and `at` the next command on it.        *)
(***************************************************************************)
Members ==
    CASE pc = "A" -> need_update
      [] pc = "B" -> need_clone
      [] pc = "C" -> need_fetch
      [] OTHER -> << >>

\* the loops without their `if update_all:` / `if clone_all:` / `if fetch_all:`
ConfirmedUnasked == pc \in {"A", "B", "C"}

Confirmed ==
    CASE pc = "A" -> update_all
      [] pc = "B" -> clone_all
      [] pc = "C" -> fetch_all
      [] OTHER -> FALSE

\* the repository of the current member
Cur == Members[i].name

\* the fetch-only loop placed before the clone loop
FollowingFetchFirst(phase) ==
    CASE phase = "A" -> "C"
      [] phase = "C" -> "B"
      [] OTHER -> "returned"

\* the loops follow one another: lines 324, 349, 360, then the return
Following(phase) ==
    CASE phase = "A" -> "B"
      [] phase = "B" -> "C"
      [] OTHER -> "returned"

\* `break` in the place of `continue`
Break == Len(Members) + 1

\* a failed fetch or clone: `continue` (lines 330, 356), and line 365's
\* branch without ensure_submodules; the loop goes on with the next member
Continue == i + 1

\* the exit codes the environment may still choose, and their accounting
Codes == IF upsets < MaxUpsets THEN ExitCodes ELSE {0}
Charge(code) == IF code = 0 THEN upsets ELSE upsets + 1

\* cmd has run on the current member
Ran(cmd, ok) == trail' = Append(trail, Event(Cur, cmd, ok))
Count(cmd) == runs' = [runs EXCEPT ![Cur][cmd] = @ + 1]

Locals == <<dirty, conflict>>
Answers3 == <<update_all, clone_all, fetch_all>>
Passes == <<checked, seen, checked_post>>
Probing == <<probe, verdict>>
History == <<trail, runs>>

\* lines 294-302
AskUpdate ==
    /\ pc = "askA"
    /\ \/ /\ need_update # << >>
          /\ \E ans \in Answers :
                /\ update_all' = ask_yes_no(ans, TRUE)
                /\ prompts' = Append(prompts, Event(0, "ask update", ask_yes_no(ans, TRUE)))
       \/ /\ need_update = << >>
          /\ update_all' = FALSE
          /\ prompts' = prompts
    /\ pc' = "askB"
    /\ UNCHANGED <<world, Passes, at, i, Locals, clone_all, fetch_all, History, upsets,
                   Probing>>

\* lines 304-312
AskClone ==
    /\ pc = "askB"
    /\ \/ /\ need_clone # << >>
          /\ \E ans \in Answers :
                /\ clone_all' = ask_yes_no(ans, TRUE)
                /\ prompts' = Append(prompts, Event(0, "ask clone", ask_yes_no(ans, TRUE)))
       \/ /\ need_clone = << >>
          /\ clone_all' = FALSE
          /\ prompts' = prompts
    /\ pc' = "askC"
    /\ UNCHANGED <<world, Passes, at, i, Locals, update_all, fetch_all, History, upsets,
                   Probing>>

\* lines 314-322
AskFetch ==
    /\ pc = "askC"
    /\ \/ /\ need_fetch # << >>
          /\ \E ans \in Answers :
                /\ fetch_all' = ask_yes_no(ans, TRUE)
                /\ prompts' = Append(prompts, Event(0, "ask fetch", ask_yes_no(ans, TRUE)))
       \/ /\ need_fetch = << >>
          /\ fetch_all' = FALSE
          /\ prompts' = prompts
    /\ pc' = "A"
    /\ i' = 1
    /\ at' = "top"
    /\ UNCHANGED <<world, Passes, Locals, update_all, clone_all, History, upsets, Probing>>

\* the end of a phase's loop; a loop whose phase was not confirmed runs
\* through its members without a command (lines 325, 350, 361)
NextPhase ==
    /\ pc \in {"A", "B", "C"}
    /\ at = "top"
    /\ i > Len(Members) \/ ~Confirmed
    /\ pc' = Following(pc)
    /\ i' = 1
    /\ UNCHANGED <<world, Passes, at, Locals, Answers3, prompts, History, upsets, Probing>>

\* lines 327-330 (Phase A) and 363-365 (Phase C): git fetch
Fetch ==
    /\ pc \in {"A", "C"}
    /\ at = "top"
    /\ i <= Len(Members)
    /\ Confirmed
    /\ \E code \in Codes :
          LET e == GitFetch(world[Cur], code) IN
          /\ world' = [world EXCEPT ![Cur] = e.world]
          /\ Ran("fetch", e.code = 0)
          /\ upsets' = Charge(code)
          /\ at' = (IF e.code # 0 THEN "failed"
                    ELSE IF pc = "A" THEN "status" ELSE "submodules")
    /\ Count("fetch")
    /\ UNCHANGED <<Passes, pc, i, Locals, Answers3, prompts, Probing>>

\* lines 331-332: the post-fetch dirty check; its exit code is not read
PostStatus ==
    /\ pc = "A"
    /\ at = "status"
    /\ \E code \in Codes :
          LET r == GitStatus(world[Cur], code) IN
          /\ dirty' = (r.out # << >>)
          /\ Ran("status", r.code = 0)
          /\ upsets' = Charge(code)
    /\ at' = "ls-files"
    /\ UNCHANGED <<world, Passes, pc, i, conflict, Answers3, prompts, runs, Probing>>

\* lines 333-335 with the test of line 335 on `conflict` alone
PostLsFilesIgnoringDirt ==
    /\ pc = "A"
    /\ at = "ls-files"
    /\ \E code \in Codes :
          LET r == GitLsFiles(world[Cur], code) IN
          /\ conflict' = (r.out # << >>)
          /\ Ran("ls-files", r.code = 0)
          /\ upsets' = Charge(code)
          /\ at' = (IF r.out = << >> THEN "pull" ELSE "submodules")
    /\ UNCHANGED <<world, Passes, pc, i, dirty, Answers3, prompts, runs, Probing>>

\* lines 333-335: the post-fetch unmerged check; its exit code is not read
PostLsFiles ==
    /\ pc = "A"
    /\ at = "ls-files"
    /\ \E code \in Codes :
          LET r == GitLsFiles(world[Cur], code) IN
          /\ conflict' = (r.out # << >>)
          /\ Ran("ls-files", r.code = 0)
          /\ upsets' = Charge(code)
          /\ at' = (IF ~dirty /\ r.out = << >> THEN "pull" ELSE "submodules")
    /\ UNCHANGED <<world, Passes, pc, i, dirty, Answers3, prompts, runs, Probing>>

\* lines 336-341: git pull, then ensure_submodules whatever its exit code
Pull ==
    /\ pc = "A"
    /\ at = "pull"
    /\ \E code \in Codes :
          LET e == GitPull(world[Cur], code) IN
          /\ world' = [world EXCEPT ![Cur] = e.world]
          /\ Ran("pull", e.code = 0)
          /\ upsets' = Charge(code)
    /\ Count("pull")
    /\ at' = "submodules"
    /\ UNCHANGED <<Passes, pc, i, Locals, Answers3, prompts, Probing>>

\* lines 351-356: git clone
Clone ==
    /\ pc = "B"
    /\ at = "top"
    /\ i <= Len(Members)
    /\ Confirmed
    /\ \E code \in Codes :
          LET e == GitClone(world[Cur], code) IN
          /\ world' = [world EXCEPT ![Cur] = e.world]
          /\ Ran("clone", e.code = 0)
          /\ upsets' = Charge(code)
          /\ at' = (IF e.code # 0 THEN "failed" ELSE "submodules")
    /\ Count("clone")
    /\ UNCHANGED <<Passes, pc, i, Locals, Answers3, prompts, Probing>>

\* ensure_submodules, lines 275-280: return without .gitmodules, else
\* git submodule init
SubmoduleInit ==
    /\ pc \in {"A", "B", "C"}
    /\ at = "submodules"
    /\ \/ /\ ~repo_has_submodules(world[Cur])
          /\ trail' = trail
          /\ upsets' = upsets
          /\ at' = "end"
       \/ /\ repo_has_submodules(world[Cur])
          /\ \E code \in Codes :
                /\ Ran("submodule init", code = 0)
                /\ upsets' = Charge(code)
                /\ at' = (IF code # 0 THEN "end" ELSE "submodule update")
    /\ UNCHANGED <<world, Passes, pc, i, Locals, Answers3, prompts, runs, Probing>>

\* ensure_submodules, lines 281-285: git submodule update --recursive
SubmoduleUpdate ==
    /\ pc \in {"A", "B", "C"}
    /\ at = "submodule update"
    /\ \E code \in Codes :
          /\ Ran("submodule update", code = 0)
          /\ upsets' = Charge(code)
    /\ at' = "end"
    /\ UNCHANGED <<world, Passes, pc, i, Locals, Answers3, prompts, runs, Probing>>

\* after a failed fetch or clone the loop goes on
ContinueLoop ==
    /\ pc \in {"A", "B", "C"}
    /\ at = "failed"
    /\ i' = Continue
    /\ at' = "top"
    /\ trail' = << >>
    /\ UNCHANGED <<world, Passes, pc, Locals, Answers3, prompts, runs, upsets, Probing>>

\* the end of a loop body: the next member
NextMember ==
    /\ pc \in {"A", "B", "C"}
    /\ at = "end"
    /\ i' = i + 1
    /\ at' = "top"
    /\ trail' = << >>
    /\ UNCHANGED <<world, Passes, pc, Locals, Answers3, prompts, runs, upsets, Probing>>

do_updates_and_clones ==
    \/ AskUpdate
    \/ AskClone
    \/ AskFetch
    \/ NextPhase
    \/ Fetch
    \/ PostStatus
    \/ PostLsFiles
    \/ Pull
    \/ Clone
    \/ SubmoduleInit
    \/ SubmoduleUpdate
    \/ ContinueLoop
    \/ NextMember

\* nothing asked, nothing run, no call of the orchestrator under way
Idle ==
    /\ at = "top"
    /\ i = 1
    /\ dirty = FALSE
    /\ conflict = FALSE
    /\ update_all = FALSE
    /\ clone_all = FALSE
    /\ fetch_all = FALSE
    /\ prompts = << >>
    /\ trail = << >>
    /\ runs = NoRuns

(***************************************************************************)
(* The orchestrator on its own: any list of records with distinct names.   *)
(* The orchestrator reads of a repository only its record and, through its *)
(* commands, the working tree: for a Phase A member the tree may have      *)
(* changed since it was classified clean (an upset); elsewhere it is as    *)
(* the status says.  Divergence is never read and is left at 0.            *)
(***************************************************************************)
Tree(d, u, g) ==
    [git |-> TRUE, dirty |-> d, unmerged |-> u, upstream |-> TRUE,
     ahead |-> 0, behind |-> 0, days |-> 0, gitmodules |-> g]

OrchWorlds(status) ==
    CASE status = NOT_PRESENT -> { [Absent EXCEPT !.gitmodules = g] : g \in BOOLEAN }
      [] status \in {OUT_OF_DATE, OBSOLETE} ->
            { Tree(d, u, g) : d \in BOOLEAN, u \in BOOLEAN, g \in BOOLEAN } \cap Worlds
      [] status = CONFLICT -> { Tree(TRUE, TRUE, g) : g \in BOOLEAN }
      [] status = SYNCHRONIZED -> { Tree(FALSE, FALSE, FALSE) }
      [] OTHER -> { Tree(TRUE, FALSE, g) : g \in BOOLEAN }

OrchInputs ==
    UNION { { [status |-> s, w |-> w] : w \in OrchWorlds(s) } : s \in Statuses }

Changed(k) == { r \in Repos : k[r].status \in {OUT_OF_DATE, OBSOLETE} /\ k[r].w.dirty }

InitOrch ==
    /\ \E k \in [Repos -> OrchInputs] :
          /\ Cardinality(Changed(k)) <= MaxUpsets
          /\ upsets = Cardinality(Changed(k))
          /\ checked = [r \in Repos |->
                           [name |-> r, status |-> k[r].status, branch |-> "main",
                            has_submodules |-> k[r].status # NOT_PRESENT /\ k[r].w.gitmodules]]
          /\ world = [r \in Repos |-> k[r].w]
    /\ seen = [r \in Repos |-> NoVerdict]
    /\ checked_post = << >>
    /\ pc = "askA"
    /\ Idle
    /\ probe = NoProbe
    /\ verdict = NoVerdict

Init == InitOrch
Next == do_updates_and_clones
Spec == Init /\ [][Next]_vars

(***************************************************************************)
(* local_repo_status as a function of its inputs: every world and every    *)
(* combination of exit codes, one call.                                    *)
(***************************************************************************)
InitClassify ==
    /\ probe \in [w : Worlds, x : Exits]
    /\ verdict = NoVerdict
    /\ pc = "classify"
    /\ world = [r \in Repos |-> Absent]
    /\ checked = << >>
    /\ seen = [r \in Repos |-> NoVerdict]
    /\ checked_post = << >>
    /\ upsets = 0
    /\ Idle

Classify ==
    /\ pc = "classify"
    /\ verdict' = local_repo_status(probe.w, probe.x)
    /\ pc' = "classified"
    /\ UNCHANGED <<world, Passes, at, i, Locals, Answers3, prompts, History, upsets, probe>>

NextClassify == Classify
SpecClassify == InitClassify /\ [][NextClassify]_vars

(***************************************************************************)
(* main, lines 416-428: check_repos, do_updates_and_clones, check_repos.   *)
(***************************************************************************)
\* the exit code given to one of the classifier's commands
ExitOf(x, cmd) ==
    CASE cmd = "status" -> x.st
      [] cmd = "rev-parse" -> x.br
      [] cmd = "remote update" -> x.ru
      [] cmd = "rev-list" -> x.rl
      [] cmd = "ls-files" -> x.ls
      [] OTHER -> x.lg

\* how many of the commands a call issued were made to fail
Failed(v, x) == Cardinality({ k \in 1..Len(v.cmds) : ExitOf(x, v.cmds[k]) # 0 })

\* the classifier's exit codes when the commands in F fail with code c
ClassifierCommands == {"status", "rev-parse", "remote update", "rev-list", "ls-files", "log"}
ExitsFor(F, c) ==
    [st |-> IF "status" \in F THEN c ELSE 0,
     br |-> IF "rev-parse" \in F THEN c ELSE 0,
     ru |-> IF "remote update" \in F THEN c ELSE 0,
     rl |-> IF "rev-list" \in F THEN c ELSE 0,
     ls |-> IF "ls-files" \in F THEN c ELSE 0,
     lg |-> IF "log" \in F THEN c ELSE 0]

\* a pre-action pass that pulls where line 172 refreshes the remote refs
CheckRepoPulling ==
    /\ pc = "check"
    /\ \E F \in SUBSET ClassifierCommands, c \in ExitCodes \ {0} :
          LET x == ExitsFor(F, c)
              v == local_repo_status(world[i], x) IN
          /\ upsets + Cardinality(F) <= MaxUpsets
          /\ upsets' = upsets + Failed(v, x)
          /\ checked' = Append(checked, Record(i, v))
          /\ seen' = [seen EXCEPT ![i] = v]
    /\ world' = [world EXCEPT ![i] = GitPull(world[i], 0).world]
    /\ i' = (IF i = NumRepos THEN 1 ELSE i + 1)
    /\ pc' = (IF i = NumRepos THEN "askA" ELSE "check")
    /\ UNCHANGED <<checked_post, at, Locals, Answers3, prompts, History, Probing>>

\* check_repos, one repository of the pre-action pass (line 416)
CheckRepo ==
    /\ pc = "check"
    /\ \E F \in SUBSET ClassifierCommands, c \in ExitCodes \ {0} :
          LET x == ExitsFor(F, c)
              v == local_repo_status(world[i], x) IN
          /\ upsets + Cardinality(F) <= MaxUpsets
          /\ upsets' = upsets + Failed(v, x)
          /\ checked' = Append(checked, Record(i, v))
          /\ seen' = [seen EXCEPT ![i] = v]
    /\ i' = (IF i = NumRepos THEN 1 ELSE i + 1)
    /\ pc' = (IF i = NumRepos THEN "askA" ELSE "check")
    /\ UNCHANGED <<world, checked_post, at, Locals, Answers3, prompts, History, Probing>>

\* check_repos, one repository of the post-action pass (line 427)
RecheckRepo ==
    /\ pc = "returned"
    /\ \E F \in SUBSET ClassifierCommands, c \in ExitCodes \ {0} :
          LET x == ExitsFor(F, c)
              v == local_repo_status(world[i], x) IN
          /\ upsets + Cardinality(F) <= MaxUpsets
          /\ upsets' = upsets + Failed(v, x)
          /\ checked_post' = Append(checked_post, Record(i, v))
    /\ i' = (IF i = NumRepos THEN 1 ELSE i + 1)
    /\ pc' = (IF i = NumRepos THEN "done" ELSE "returned")
    /\ UNCHANGED <<world, checked, seen, at, Locals, Answers3, prompts, History, Probing>>

\* the worlds a run starts from: every shape of repository, with the commit
\* age on either side of the recency split
RunWorlds == { w \in Worlds : w.days \in {0, Threshold - DaysSpread, Threshold} }

InitRun ==
    /\ world \in [Repos -> RunWorlds]
    /\ checked = << >>
    /\ seen = [r \in Repos |-> NoVerdict]
    /\ checked_post = << >>
    /\ pc = "check"
    /\ upsets = 0
    /\ Idle
    /\ probe = NoProbe
    /\ verdict = NoVerdict

NextRun ==
    \/ CheckRepo
    \/ do_updates_and_clones
    \/ RecheckRepo

SpecRun == InitRun /\ [][NextRun]_vars

(***************************************************************************)
(* Properties of local_repo_status (SpecClassify).                         *)
(***************************************************************************)
Classified == pc = "classified"
Cloned == probe.w.git

\* the dirty check, the branch query and the remote refresh all succeed
ReadsOk == probe.x.st = 0 /\ probe.x.br = 0 /\ probe.x.ru = 0

\* C3: for a clone whose dirty check, branch query and remote refresh
\* succeed, unmerged paths (a non-empty `git ls-files --unmerged` listing)
\* give CONFLICT whatever dirty, ahead and behind are, also without an
\* upstream or with a failing ahead/behind count.
C3_UnmergedIsConflict ==
    (Classified /\ Cloned /\ ReadsOk /\ probe.w.unmerged /\ probe.x.ls = 0)
        => verdict.status = CONFLICT

\* C4: for a clone, a failing dirty check, branch query or unmerged-path
\* query gives CONFLICT.
C4_UnreadableIsConflict ==
    (Classified /\ Cloned /\ (probe.x.st # 0 \/ probe.x.br # 0 \/ probe.x.ls # 0))
        => verdict.status = CONFLICT

\* C5 as stated, read with every query succeeding: a dirty tree with
\* ahead > 0 or behind > 0 is always DESYNCHRONIZED, never another status.
C5_DirtyDivergedAlwaysDesynchronized ==
    (Classified /\ Cloned /\ ReadsOk /\ probe.x.rl = 0
        /\ probe.w.dirty /\ (probe.w.ahead > 0 \/ probe.w.behind > 0))
        => verdict.status = DESYNCHRONIZED

\* C5 amended: when the dirty check, branch query, remote refresh and
\* ahead/behind count succeed, a dirty tree with ahead > 0 or behind > 0 is
\* DESYNCHRONIZED unless the unmerged-path listing succeeds and is
\* non-empty, and then it is CONFLICT.
C5_DirtyDiverged ==
    (Classified /\ Cloned /\ ReadsOk /\ probe.x.rl = 0
        /\ probe.w.dirty /\ (probe.w.ahead > 0 \/ probe.w.behind > 0))
        => verdict.status =
              (IF probe.x.ls = 0 /\ probe.w.unmerged THEN CONFLICT ELSE DESYNCHRONIZED)

C5_Witness ==
    /\ Classified /\ Cloned /\ ReadsOk /\ probe.x.rl = 0
    /\ probe.w.dirty /\ ~probe.w.unmerged
    /\ probe.w.ahead > 0 /\ probe.w.behind = 0
    /\ verdict.status = DESYNCHRONIZED

\* C6: a clean, unconflicted clone that is behind its upstream is
\* OUT_OF_DATE when the newest upstream-only commit is less than 30 days
\* old, or its date cannot be had, and OBSOLETE from 30 days on.
C6_RecencySplit ==
    (Classified /\ Cloned /\ ReadsOk /\ probe.x.rl = 0 /\ probe.x.ls = 0
        /\ ~probe.w.dirty /\ ~probe.w.unmerged /\ probe.w.behind > 0)
        => verdict.status =
              (IF probe.x.lg = 0 /\ probe.w.days >= Threshold THEN OBSOLETE ELSE OUT_OF_DATE)

\* C7: without a .git directory the result is NOT PRESENT with branch "-",
\* whatever else holds, and no command is run.
C7_NotPresent ==
    (Classified /\ ~Cloned)
        => /\ verdict.status = NOT_PRESENT
           /\ verdict.branch = "-"
           /\ verdict.cmds = << >>

C7_Witness ==
    /\ Classified /\ ~Cloned
    /\ probe.w.gitmodules
    /\ probe.x.st # 0
    /\ verdict.status = NOT_PRESENT

(***************************************************************************)
(* Properties of do_updates_and_clones (Spec) and of a whole run (SpecRun).*)
(* Every command appears in `trail` in the state it leads to, so a         *)
(* property of all trails in all reachable states is a property of every   *)
(* command ever run.                                                       *)
(***************************************************************************)
PhaseA == {OUT_OF_DATE, OBSOLETE}
PhaseC == {MODIFIED, CONFLICT, DESYNCHRONIZED}

Steps == DOMAIN trail
StatusOf(r) == checked[r].status
Returned == pc = "returned"
Asking == pc \in {"askA", "askB", "askC"}
Untouched(r) == runs[r] = NoRuns[r] /\ \A k \in Steps : trail[k].repo # r
Began(r) == ~Untouched(r)

\* C1: on a repository recorded MODIFIED, CONFLICT or DESYNCHRONIZED no
\* pull and no clone is ever run; apart from ensure_submodules' two
\* commands, the only command run there is git fetch.
C1_FetchOnly ==
    /\ \A k \in Steps :
          StatusOf(trail[k].repo) \in PhaseC
              => trail[k].cmd \in {"fetch", "submodule init", "submodule update"}
    /\ \A r \in DOMAIN checked :
          StatusOf(r) \in PhaseC => runs[r].pull = 0 /\ runs[r].clone = 0

C1_Witness ==
    /\ pc = "C"
    /\ at = "end"
    /\ StatusOf(Cur) = CONFLICT
    /\ world[Cur].unmerged
    /\ trail = <<Event(Cur, "fetch", TRUE), Event(Cur, "submodule init", TRUE),
                 Event(Cur, "submodule update", TRUE)>>

\* C2: a repository on which a pull is run had ahead = 0 in the
\* classifier's count when it was classified.
C2_PulledOnlyWithoutLocalCommits ==
    \A k \in Steps : trail[k].cmd = "pull" => seen[trail[k].repo].ahead = 0

\* how often q was asked, and whether the run is past asking it
Asks(q) == Cardinality({ k \in DOMAIN prompts : prompts[k].cmd = q })
Past(q) ==
    CASE q = "ask update" -> pc \notin {"check", "askA"}
      [] q = "ask clone" -> pc \notin {"check", "askA", "askB"}
      [] OTHER -> pc \notin {"check", "askA", "askB", "askC"}
AskedOnce(q, members) == Asks(q) = (IF Past(q) /\ members # << >> THEN 1 ELSE 0)
\* the operator was asked q and said yes
Granted(q) == \E k \in DOMAIN prompts : prompts[k] = Event(0, q, TRUE)

\* C8: each phase asks once if it has members and never otherwise, and a
\* command is run on a repository only if its phase was confirmed.
C8_OneConfirmationPerPhase ==
    /\ AskedOnce("ask update", need_update)
    /\ AskedOnce("ask clone", need_clone)
    /\ AskedOnce("ask fetch", need_fetch)
    /\ \A r \in DOMAIN checked :
          Began(r) =>
              /\ StatusOf(r) \in PhaseA => Granted("ask update")
              /\ StatusOf(r) = NOT_PRESENT => Granted("ask clone")
              /\ StatusOf(r) \in PhaseC => Granted("ask fetch")
              /\ StatusOf(r) # SYNCHRONIZED

C8_Witness ==
    /\ Returned
    /\ Len(need_update) = 1 /\ ~update_all
    /\ Len(need_clone) = 1 /\ clone_all
    /\ runs[need_clone[1].name].clone = 1
    /\ world[need_clone[1].name].git
    /\ Len(prompts) = 2

\* every member has had its first command and the loop has left it
Completed(members, cmd) ==
    \A k \in DOMAIN members :
        /\ runs[members[k].name][cmd] = 1
        /\ \A j \in Steps : trail[j].repo # members[k].name
NotBegun(members) == \A k \in DOMAIN members : Untouched(members[k].name)

\* C9 as stated: when Phase B's confirmation is requested every command of
\* a confirmed Phase A has been run, and when Phase C's confirmation is
\* requested every command of a confirmed Phase B has been run.
C9_ConfirmationAfterPreviousPhase ==
    /\ (pc = "askB" /\ need_clone # << >> /\ update_all) => Completed(need_update, "fetch")
    /\ (pc = "askC" /\ need_fetch # << >> /\ clone_all) => Completed(need_clone, "clone")

\* the place of a prompt in the order update, clone, fetch
Rank(q) ==
    CASE q = "ask update" -> 1
      [] q = "ask clone" -> 2
      [] OTHER -> 3

\* C9 amended: the confirmations are requested first, in the order A, B, C,
\* before any command is run; then every Phase A command comes before
\* every Phase B command, and every Phase B command before every Phase C
\* command.
C9_PromptsThenPhasesInSequence ==
    /\ \A j, k \in DOMAIN prompts : j < k => Rank(prompts[j].cmd) < Rank(prompts[k].cmd)
    /\ Asking => \A r \in Repos : Untouched(r)
    /\ ~Asking => /\ AskedOnce("ask update", need_update)
                  /\ AskedOnce("ask clone", need_clone)
                  /\ AskedOnce("ask fetch", need_fetch)
    /\ pc = "A" => NotBegun(need_clone) /\ NotBegun(need_fetch)
    /\ pc = "B" => /\ update_all => Completed(need_update, "fetch")
                   /\ NotBegun(need_fetch)
    /\ pc = "C" => /\ update_all => Completed(need_update, "fetch")
                   /\ clone_all => Completed(need_clone, "clone")

C9_Witness ==
    /\ pc = "B"
    /\ at = "end"
    /\ update_all
    /\ need_update # << >>
    /\ runs[need_update[1].name].pull = 1
    /\ trail[1] = Event(Cur, "clone", TRUE)

\* how often the first command of a phase was run on its k-th member, if
\* none is skipped or repeated by the time the run is at pc, i, trail
Due(phase, k) ==
    IF pc = phase
    THEN (IF k < i \/ (k = i /\ trail # << >>) THEN 1 ELSE 0)
    ELSE (IF (phase = "A" /\ pc \in {"B", "C", "returned"})
               \/ (phase = "B" /\ pc \in {"C", "returned"})
               \/ (phase = "C" /\ pc = "returned")
          THEN 1 ELSE 0)
InOrder(phase, members, cmd) ==
    \A k \in DOMAIN members : runs[members[k].name][cmd] = Due(phase, k)

\* the place of the run among the stages, and of a command in a loop body
PcRank(p) ==
    CASE p = "askA" -> 1
      [] p = "askB" -> 2
      [] p = "askC" -> 3
      [] p = "A" -> 4
      [] p = "B" -> 5
      [] p = "C" -> 6
      [] OTHER -> 7
AtRank(a) ==
    CASE a = "top" -> 1
      [] a = "status" -> 2
      [] a = "ls-files" -> 3
      [] a = "pull" -> 4
      [] a = "submodules" -> 5
      [] a = "submodule update" -> 6
      [] OTHER -> 7

\* a step moves on: to a later stage, or a later member of the same stage,
\* or, on the same member, to a later command or to the next member
Advances ==
    \/ PcRank(pc') > PcRank(pc)
    \/ pc' = pc /\ i' > i /\ i' <= Len(Members) + 1
    \/ pc' = pc /\ i' = i /\ AtRank(at') > AtRank(at)

C10_EachMemberOnce ==
    /\ update_all => InOrder("A", need_update, "fetch")
    /\ clone_all => InOrder("B", need_clone, "clone")
    /\ fetch_all => InOrder("C", need_fetch, "fetch")
    /\ pc \in {"askA", "askB", "askC", "A", "B", "C"} => ENABLED do_updates_and_clones

\* C10: in a confirmed phase the first command (fetch, clone, fetch) is run
\* on every member exactly once, in the order of the phase's list,
\* whichever commands failed; the later phases are reached all the same;
\* and the orchestrator terminates: until it returns it always has a next
\* step, and every step moves on through the finitely many positions.
C10_FailureIsolated == [] C10_EachMemberOnce /\ [][Advances]_vars

C10_Witness ==
    /\ pc = "B"
    /\ at = "end"
    /\ i = 2
    /\ Len(need_clone) = 2
    /\ ~world[need_clone[1].name].git
    /\ runs[need_clone[1].name].clone = 1
    /\ trail[1] = Event(need_clone[2].name, "clone", TRUE)

\* C11: after a failed fetch, pull or clone no further command is run on
\* that repository in the phase.
C11_FailureSkipsRest ==
    \A k \in Steps :
        (trail[k].cmd \in {"fetch", "pull", "clone"} /\ ~trail[k].ok) => k = Len(trail)

\* C12: in Phase A no pull is run on a member whose post-fetch dirty check
\* or post-fetch unmerged-path check exited non-zero.
C12_FailedCheckBlocksPull ==
    \A k \in Steps :
        trail[k].cmd = "pull" =>
            \A j \in 1..(k - 1) : trail[j].cmd \in {"status", "ls-files"} => trail[j].ok

\* C16: ensure_submodules runs no command on a tree without .gitmodules;
\* otherwise submodule init and, only after init succeeded, the recursive
\* update; and whether or not a step fails, the loop goes on to the next
\* member once ensure_submodules has returned.
C16_SubmodulesBestEffort ==
    /\ \A k \in Steps :
          /\ trail[k].cmd = "submodule init" => world[trail[k].repo].gitmodules
          /\ trail[k].cmd = "submodule update" =>
                k > 1 /\ trail[k - 1] = Event(trail[k].repo, "submodule init", TRUE)
    /\ at = "end" =>
          /\ ENABLED NextMember
          /\ IF world[Cur].gitmodules
             THEN \/ trail[Len(trail)] = Event(Cur, "submodule init", FALSE)
                  \/ trail[Len(trail)].cmd = "submodule update"
             ELSE \A k \in Steps : trail[k].cmd \notin {"submodule init", "submodule update"}

C16_Witness ==
    /\ pc = "C"
    /\ at = "end"
    /\ i < Len(Members)
    /\ trail = <<Event(Cur, "fetch", TRUE), Event(Cur, "submodule init", TRUE),
                 Event(Cur, "submodule update", FALSE)>>

\* C19: in Phase A a pull is run on a member only as the fourth command,
\* after its fetch succeeded and its post-fetch dirty and unmerged checks
\* both printed nothing; when either printed something there is no pull
\* and ensure_submodules is called next (and returns at once on a tree
\* without .gitmodules).
C19_PullOnlyWhenCleanAfterFetch ==
    /\ \A k \in Steps :
          trail[k].cmd = "pull" =>
              /\ pc = "A"
              /\ k = Len(<<"fetch", "status", "ls-files", "pull">>)
              /\ trail[1] = Event(Cur, "fetch", TRUE)
              /\ trail[k - 2].cmd = "status"
              /\ trail[k - 1].cmd = "ls-files"
              /\ ~dirty /\ ~conflict
    /\ (pc = "A" /\ trail # << >> /\ trail[Len(trail)].cmd = "ls-files") =>
          IF dirty \/ conflict
          THEN at = "submodules" \/ (at = "end" /\ ~world[Cur].gitmodules)
          ELSE at = "pull"

C19_Witness ==
    /\ pc = "A"
    /\ at = "end"
    /\ dirty /\ ~conflict
    /\ world[Cur].gitmodules
    /\ trail = <<Event(Cur, "fetch", TRUE), Event(Cur, "status", TRUE),
                 Event(Cur, "ls-files", TRUE), Event(Cur, "submodule init", TRUE),
                 Event(Cur, "submodule update", TRUE)>>

\* C20: for a clone whose dirty check, branch query and remote refresh
\* succeed, without an upstream or with a failing ahead/behind count the
\* counts are taken as 0 and the result is MODIFIED for a dirty tree and
\* SYNCHRONIZED otherwise.
C20_NoCountFallsThrough ==
    (Classified /\ Cloned /\ ReadsOk /\ (~probe.w.upstream \/ probe.x.rl # 0))
        => /\ verdict.status = (IF probe.w.dirty THEN MODIFIED ELSE SYNCHRONIZED)
           /\ verdict.behind = 0
           /\ verdict.ahead = 0

C20_Witness ==
    /\ Classified /\ Cloned /\ ReadsOk
    /\ probe.w.upstream /\ probe.x.rl = RunnerFailure
    /\ probe.w.dirty /\ probe.w.behind > 0
    /\ verdict.status = MODIFIED

\* the names of the records of a list
Names(recs) == { recs[k].name : k \in DOMAIN recs }

\* the statuses whose records a phase's list holds
Of(phase) ==
    CASE phase = "A" -> PhaseA
      [] phase = "B" -> {NOT_PRESENT}
      [] OTHER -> PhaseC

List(phase) ==
    CASE phase = "A" -> need_update
      [] phase = "B" -> need_clone
      [] OTHER -> need_fetch

\* C21: for records with distinct names, a record is a member of a phase
\* exactly when its status is one of that phase's statuses, so no record
\* is in two phases and a SYNCHRONIZED record is in none; no command is
\* ever run on a SYNCHRONIZED repository; and on every repository fetch,
\* pull and clone are each run at most once in a call.
C21_DisjointPhases ==
    /\ \A phase \in {"A", "B", "C"} :
          /\ Names(List(phase)) = { r \in Repos : StatusOf(r) \in Of(phase) }
          /\ Len(List(phase)) = Cardinality(Names(List(phase)))
    /\ \A p \in {"A", "B", "C"}, q \in {"A", "B", "C"} :
          p # q => Names(List(p)) \cap Names(List(q)) = {}
    /\ \A r \in Repos :
          /\ StatusOf(r) = SYNCHRONIZED => Untouched(r)
          /\ runs[r].fetch <= 1
          /\ runs[r].pull <= 1
          /\ runs[r].clone <= 1
          /\ runs[r].clone = 1 => runs[r].fetch = 0

C21_Witness ==
    /\ Returned
    /\ \E r \in Repos, s \in Repos :
          /\ StatusOf(r) = SYNCHRONIZED
          /\ runs[r] = NoRuns[r]
          /\ StatusOf(s) = OUT_OF_DATE
          /\ runs[s] = [fetch |-> 1, pull |-> 1, clone |-> 0]

(***************************************************************************)
(* Properties of a whole run (SpecRun).  upsets = 0: every command of the  *)
(* run exited 0.  The remote never changes during a run.                   *)
(***************************************************************************)
Done == pc = "done"
\* clean, tracking an upstream, behind it and with no local commits
BehindOnly(w) == w.git /\ ~w.dirty /\ w.upstream /\ w.behind > 0 /\ w.ahead = 0
\* no command has changed the repository's working tree: it is as the run
\* found it
AsFound(r) == runs[r].pull = 0 /\ runs[r].clone = 0

\* C13: when every command succeeds, (1) a clean repository that is behind
\* its upstream with no local commits is left as the run found it only if
\* Phase A was declined, never because it was classified otherwise; and
\* (2) a repository the classifier counted clean with behind > 0 and
\* ahead = 0 and recorded OUT OF DATE or OBSOLETE is, in a confirmed Phase
\* A, fetched and pulled once and is SYNCHRONIZED in the post-action pass.
C13_CaughtUpAfterPull ==
    (Done /\ upsets = 0) =>
        \A r \in Repos :
            /\ (AsFound(r) /\ BehindOnly(world[r]))
                  => (StatusOf(r) \in PhaseA /\ ~update_all)
            /\ (StatusOf(r) \in PhaseA /\ update_all
                  /\ ~seen[r].dirty /\ seen[r].behind > 0 /\ seen[r].ahead = 0)
                  => /\ runs[r].fetch = 1
                     /\ runs[r].pull = 1
                     /\ checked_post[r].status = SYNCHRONIZED

MaxLen == 5
Alphabet == {"a", "b", ":", "@"}
Targets == UNION { [1..n -> Alphabet] : n \in 0..MaxLen }
None == <<"None">>
Fatal == [fatal |-> TRUE]

\* c in s
Contains(s, c) == \E k \in DOMAIN s : s[k] = c
\* s.index(c) and the place of the last c, for s containing c
index(s, c) == CHOOSE k \in DOMAIN s : s[k] = c /\ \A j \in 1..(k - 1) : s[j] # c
rindex(s, c) == CHOOSE k \in DOMAIN s : s[k] = c /\ \A j \in (k + 1)..Len(s) : s[j] # c
\* s.split(c, 1) and s.rsplit(c, 1), for s containing c
split(s, c) == <<SubSeq(s, 1, index(s, c) - 1), SubSeq(s, index(s, c) + 1, Len(s))>>
rsplit(s, c) == <<SubSeq(s, 1, rindex(s, c) - 1), SubSeq(s, rindex(s, c) + 1, Len(s))>>

\* line 79 never failing
MissingNever(user, alias) == FALSE

\* line 79: not user or not alias
Missing(user, alias) == user = << >> \/ alias = << >>

\* lines 79-81
Parsed(org, user, alias) ==
    IF Missing(user, alias) THEN Fatal
    ELSE [org |-> org, user |-> user, alias |-> alias]

parse_org_user_alias(arg) ==
    IF Contains(arg, ":") /\ Contains(arg, "@") /\ index(arg, ":") < index(arg, "@")
    THEN LET org_user == rsplit(arg, "@")[1]
             alias == rsplit(arg, "@")[2]
         IN  Parsed(split(org_user, ":")[1], split(org_user, ":")[2], alias)
    ELSE IF Contains(arg, "@")
         THEN Parsed(None, split(arg, "@")[1], split(arg, "@")[2])
    ELSE Fatal

\* one call of parse_org_user_alias on every target within the bound
InitParse ==
    /\ probe \in [arg : Targets]
    /\ verdict = NoVerdict
    /\ pc = "parse"
    /\ world = [r \in Repos |-> Absent]
    /\ checked = << >>
    /\ seen = [r \in Repos |-> NoVerdict]
    /\ checked_post = << >>
    /\ upsets = 0
    /\ Idle

Parse ==
    /\ pc = "parse"
    /\ verdict' = parse_org_user_alias(probe.arg)
    /\ pc' = "parsed"
    /\ UNCHANGED <<world, Passes, at, i, Locals, Answers3, prompts, History, upsets, probe>>

NextParse == Parse
SpecParse == InitParse /\ [][NextParse]_vars

\* the part of the target from place p to place q
Part(p, q) == SubSeq(probe.arg, p, q)
Plain(s) == ~Contains(s, "@")
Bare(s) == ~Contains(s, "@") /\ ~Contains(s, ":")

\* C18: every target org ":" user "@" alias (org without ":" or "@", user
\* and alias non-empty and without "@") parses to (org, user, alias), every
\* target user "@" alias (user non-empty and without ":" or "@", alias
\* non-empty and without "@") to (None, user, alias), and whatever is
\* returned has a non-empty user and a non-empty alias.
C18_ParsesBothForms ==
    pc = "parsed" =>
        LET n == Len(probe.arg) IN
        /\ verdict # Fatal => verdict.user # << >> /\ verdict.alias # << >>
        /\ \A p, q \in 1..n :
              (/\ p < q /\ probe.arg[p] = ":" /\ probe.arg[q] = "@"
               /\ Bare(Part(1, p - 1))
               /\ Plain(Part(p + 1, q - 1)) /\ Part(p + 1, q - 1) # << >>
               /\ Plain(Part(q + 1, n)) /\ Part(q + 1, n) # << >>)
                  => verdict = [org |-> Part(1, p - 1), user |-> Part(p + 1, q - 1),
                                alias |-> Part(q + 1, n)]
        /\ \A q \in 1..n :
              (/\ probe.arg[q] = "@"
               /\ Bare(Part(1, q - 1)) /\ Part(1, q - 1) # << >>
               /\ Plain(Part(q + 1, n)) /\ Part(q + 1, n) # << >>)
                  => verdict = [org |-> None, user |-> Part(1, q - 1), alias |-> Part(q + 1, n)]

C18_Witness ==
    /\ pc = "parsed"
    /\ probe.arg = <<"a", ":", "b", "@", "a">>
    /\ verdict = [org |-> <<"a">>, user |-> <<"b">>, alias |-> <<"a">>]

(***************************************************************************)
(* display_repos_table, lines 240-254: the table as its title, its header  *)
(* row and its rows of cell texts (rich prints the markup's text).         *)
(***************************************************************************)
\* lines 243-246: the columns added to the table
Columns == <<"Repository", "Branch", "Status", "Submodules">>

\* lines 249-253: one row
Row(item) ==
    <<item.name, item.branch, item.status,
      IF item.has_submodules THEN "Yes" ELSE "(none)">>

display_repos_table(recs, title) ==
    LET sorted == SortSeq(recs, LAMBDA a, b : a.name < b.name)
    IN  [title |-> title, header |-> Columns,
         rows |-> [k \in DOMAIN sorted |-> Row(sorted[k])]]

\* the records handed to the table: those of check_repos, here with the
\* further key the test's sample carries
Items ==
    { [name |-> r, visibility |-> v, status |-> st,
       branch |-> IF st = NOT_PRESENT THEN "-" ELSE "main", has_submodules |-> g] :
        r \in Repos, v \in {"PUBLIC", "PRIVATE"}, st \in Statuses, g \in BOOLEAN }

\* non-empty lists of records with distinct names
Samples ==
    UNION { { l \in [1..n -> Items] : \A j, k \in 1..n : l[j].name = l[k].name => j = k } :
            n \in 1..NumRepos }

InitDisplay ==
    /\ probe \in [recs : Samples, title : {"Test"}]
    /\ verdict = NoVerdict
    /\ pc = "display"
    /\ world = [r \in Repos |-> Absent]
    /\ checked = << >>
    /\ seen = [r \in Repos |-> NoVerdict]
    /\ checked_post = << >>
    /\ upsets = 0
    /\ Idle

Display ==
    /\ pc = "display"
    /\ verdict' = display_repos_table(probe.recs, probe.title)
    /\ pc' = "displayed"
    /\ UNCHANGED <<world, Passes, at, i, Locals, Answers3, prompts, History, upsets, probe>>

NextDisplay == Display
SpecDisplay == InitDisplay /\ [][NextDisplay]_vars

\* C17: for a non-empty list of records the table printed has a header
\* reading VISIBILITY.
C17_HasVisibilityColumn ==
    pc = "displayed" => \E k \in DOMAIN verdict.header : verdict.header[k] = "VISIBILITY"

(***************************************************************************)
(* main, lines 370-430, under the handler of lines 432-439: the            *)
(* preconditions, then the run.  pc runs args, target, path, ssh, list and *)
(* then as in SpecRun; "usage" is the exit of line 395, "fatal" an exit    *)
(* through fatal().                                                        *)
(***************************************************************************)
\* the --org option: absent, or one of two organizations
OrgOptions == {None, <<"a">>, <<"b">>}
\* the targets given to a run: user@alias, org:user@alias for either
\* organization, one without "@", one with neither user nor alias
MainTargets ==
    {<<"a", "@", "b">>, <<"a", ":", "b", "@", "a">>, <<"b", ":", "b", "@", "a">>,
     <<"a", "b">>, <<":", "@">>}
\* Python's truth of an org: neither None nor the empty string
Truthy(org) == org # None /\ org # << >>

Settled == <<world, Passes, at, i, Locals, Answers3, prompts, History, upsets, Probing>>

\* lines 388-395: target and local_root must both be given
ParseArgs ==
    /\ pc = "args"
    /\ \E given \in BOOLEAN : pc' = (IF given THEN "target" ELSE "usage")
    /\ UNCHANGED Settled

\* lines 397-403: parse the target, then compare its org with --org
ParseTarget ==
    /\ pc = "target"
    /\ \E arg \in MainTargets, org2 \in OrgOptions :
          LET r == parse_org_user_alias(arg) IN
          pc' = (IF r = Fatal THEN "fatal"
                 ELSE IF Truthy(r.org) /\ Truthy(org2) /\ r.org # org2 THEN "fatal"
                 ELSE "path")
    /\ UNCHANGED Settled

\* check_local_path, lines 100-107
CheckLocalPath ==
    /\ pc = "path"
    /\ \E exists \in BOOLEAN, writable \in BOOLEAN :
          pc' = (IF exists /\ writable THEN "ssh" ELSE "fatal")
    /\ UNCHANGED Settled

\* verify_ssh_access, lines 83-98: the greeting on stdout, on stderr, or
\* on neither
VerifySsh ==
    /\ pc = "ssh"
    /\ \E found \in {"STDOUT", "STDERR", "neither"} :
          pc' = (IF found = "neither" THEN "fatal" ELSE "list")
    /\ UNCHANGED Settled

\* lines 413-415: get_github_repos dies on a failed request (109-120), and
\* an empty list is fatal
ListRepos ==
    /\ pc = "list"
    /\ \E got \in {"request failed", "empty", "repos"} :
          pc' = (IF got = "repos" THEN "check" ELSE "fatal")
    /\ UNCHANGED Settled

\* line 266 under lines 435-436: input() raises (end of input on stdin),
\* nothing in main catches it, and the handler exits through fatal()
Unanswered ==
    /\ \/ pc = "askA" /\ need_update # << >>
       \/ pc = "askB" /\ need_clone # << >>
       \/ pc = "askC" /\ need_fetch # << >>
    /\ pc' = "fatal"
    /\ UNCHANGED Settled

InitMain ==
    /\ world \in [Repos -> RunWorlds]
    /\ checked = << >>
    /\ seen = [r \in Repos |-> NoVerdict]
    /\ checked_post = << >>
    /\ pc = "args"
    /\ upsets = 0
    /\ Idle
    /\ probe = NoProbe
    /\ verdict = NoVerdict

NextMain ==
    \/ ParseArgs
    \/ ParseTarget
    \/ CheckLocalPath
    \/ VerifySsh
    \/ ListRepos
    \/ NextRun
    \/ Unanswered

SpecMain == InitMain /\ [][NextMain]_vars

Aborted == pc \in {"usage", "fatal"}
\* the first fetch or clone of the run has been issued
Mutating == runs # NoRuns \/ trail # << >>

\* C15: a run ends early only before any classification and any command,
\* and once its first fetch or clone has been issued it does not end
\* early and always has a next step until the post-action pass is done.
C15_AbortOnlyOnPrecondition ==
    /\ Aborted => (checked = << >> /\ prompts = << >> /\ ~Mutating)
    /\ Mutating => (~Aborted /\ (pc # "done" => ENABLED NextMain))

====
